---- MODULE Spec2Model ----
(***************************************************************************)
(* A model of dfdiskcache.DataFrameDiskCache (src/dfdiskcache/_core.py):   *)
(* a disk cache of pandas DataFrames.  The state is the DiskCacheInfo      *)
(* table of the sqlite database, the files of the cache directory and of   *)
(* the temporary directory, and the UTC clock.                             *)
(*                                                                         *)
(* Spec        one caller; every public method is one atomic action; files *)
(*             can be removed or overwritten from outside.                 *)
(* EngineSpec  one caller, and nothing else touches the cache directory.   *)
(* ConcSpec    several callers sharing one cache directory; set and get    *)
(*             are split at their file-system and database calls.          *)
(* RaceSpec    several callers; set, delete and prune are split likewise.  *)
(* IsoSpec     one caller using instances of several cache directories.    *)
(***************************************************************************)
EXTENDS Integers, Sequences, FiniteSets, TLC

VARIABLES
    now,      \* get_utcnow_timestamp(): the UTC clock, in whole seconds
    db,       \* the rows of the DiskCacheInfo table
    files,    \* cache directory: path -> content of the file at that path
    tmp,      \* temporary directory: path -> content of the file at that path
    stored,   \* per digest: the DataFrame the latest set stored (history, not program state)
    pc,       \* ConcSpec: per caller, the statement it is about to execute
    loc,      \* ConcSpec: per caller, the arguments and local variables of its call
    con,      \* the cache directory whose database DiskCacheInfo is attached to
    detached, \* per cache directory: the table of its database while not attached
    insts     \* the cache directories a DataFrameDiskCache instance was constructed for

vars == <<now, db, files, tmp, stored, pc, loc, con, detached, insts>>

(***************************************************************************)
(* Bounds and inputs                                                       *)
(***************************************************************************)
MaxTime == 2

MaxTTL == 1

\* ConcSpec: the callers (threads or processes) sharing the cache directory
NumCallers == 2

\* ConcSpec: how many calls each caller makes
MaxCalls == 2

DEFAULT_TTL == 3600

\* ttl argument of set (Optional[int]): <<>> is ttl=None, <<t>> is ttl=t
NoTTL == <<>>

TTLArgs == {<<t>> : t \in 0..MaxTTL} \cup {NoTTL}

\* raw keys, as sequences of characters
Keys == {<<"a">>, <<" ", "a", " ">>, <<"b">>}

\* no key
NoKey == <<>>

\* the DataFrames callers store
DataFrames == {"df1", "df2"}

CacheDir == "cache_dir"

\* the cache directory of a second instance in the same process
OtherDir == "cache_dir2"

Dirs == {CacheDir, OtherDir}

(***************************************************************************)
(* Hasher                                                                  *)
(***************************************************************************)
IsSpace(c) == c \in {" ", "\t", "\n"}

RECURSIVE LStrip(_)
LStrip(s) == IF s # <<>> /\ IsSpace(Head(s)) THEN LStrip(Tail(s)) ELSE s

RECURSIVE RStrip(_)
RStrip(s) ==
    IF s # <<>> /\ IsSpace(s[Len(s)]) THEN RStrip(SubSeq(s, 1, Len(s) - 1)) ELSE s

\* a strip of the leading whitespace only
StripLeft(s) == LStrip(s)

\* str.strip()
Strip(s) == RStrip(LStrip(s))

\* hashlib.sha256(key.strip().encode()).hexdigest(): sha256 is modelled as
\* injective, a digest being the tagged stripped key
calc_hash(key) == <<"sha256", Strip(key)>>

Hashes == {calc_hash(k) : k \in Keys}

\* self.cache_dir_path / f"{hash}.{self.PICKLE_EXT}", for the instance of dir
fpath(dir, hash) == <<dir, hash, "pkl">>

\* the same for the instance of CacheDir
cache_fpath(hash) == fpath(CacheDir, hash)

Paths == {cache_fpath(h) : h \in Hashes}

AllPaths == {fpath(d, h) : d \in Dirs, h \in Hashes}

\* os.path.join(tempfile.gettempdir(), f"{MODULE_NAME}_{hash}_{timestamp:d}.pkl")
tmp_fpath(hash, timestamp) == <<"tmp_dir", hash, timestamp, "pkl">>

TmpPaths == {tmp_fpath(h, t) : h \in Hashes, t \in 0..MaxTime}

(***************************************************************************)
(* Payload files.  A file content is a pair <<tag, object>>.               *)
(***************************************************************************)
NoFile == <<"nofile", "">>

\* a file opened for writing whose bytes are not all written yet
Truncated == <<"truncated", "">>

\* bytes that are no pickle stream
Garbage == <<"garbage", "">>

\* DataFrame.to_pickle / pickle.dump
to_pickle(obj) == <<"pickle", obj>>

\* a pickled object that is no DataFrame
NotDataFrame == "not_a_dataframe"

\* os.path.isfile
isfile(fs, path) == path \in DOMAIN fs /\ fs[path] # NoFile

\* pd.read_pickle: the object, or an exception on bytes that do not unpickle
read_pickle(content) ==
    IF content[1] = "pickle"
    THEN [status |-> "ok", obj |-> content[2]]
    ELSE [status |-> "raise", obj |-> ""]

\* os.remove
remove(fs, path) == [fs EXCEPT ![path] = NoFile]

(***************************************************************************)
(* Return values, all of one shape                                         *)
(***************************************************************************)
RetNone == [kind |-> "None", df |-> "", path |-> <<>>, n |-> 0]

\* the call ends with an exception instead of a value
RetRaise == [kind |-> "raise", df |-> "", path |-> <<>>, n |-> 0]

RetDf(d) == [kind |-> "df", df |-> d, path |-> <<>>, n |-> 0]

RetPath(p) == [kind |-> "path", df |-> "", path |-> p, n |-> 0]

RetCount(c) == [kind |-> "count", df |-> "", path |-> <<>>, n |-> c]

(***************************************************************************)
(* Metadata store: the DiskCacheInfo table as a set of rows                *)
(***************************************************************************)
DiskCacheInfo(key, path, created_at, updated_at, ttl) ==
    [key |-> key, path |-> path, created_at |-> created_at,
     updated_at |-> updated_at, ttl |-> ttl]

\* Where(DiskCacheInfo.key, hash)
WhereKey(rows, hash) == {r \in rows : r.key = hash}

\* a validity test that excludes the second updated_at + ttl itself
IsValidStrict(r, t) == (r.updated_at + r.ttl) > t

\* f"(updated_at + ttl) >= {utcnow_timestamp}"
IsValid(r, t) == (r.updated_at + r.ttl) >= t

\* an expiry test that is off by one second
IsExpiredInclusive(r, t) == (r.updated_at + r.ttl) <= t

\* f"(updated_at + ttl) < {get_utcnow_timestamp()}"
IsExpired(r, t) == (r.updated_at + r.ttl) < t

\* the row a "for record in results" loop visits first
FirstOf(rows) == CHOOSE r \in rows : TRUE

\* DiskCacheInfo.fetch_num_records(where=Where(DiskCacheInfo.key, hash))
fetch_num_records(rows, hash) == Cardinality(WhereKey(rows, hash))

\* set, num_record == 0: the ttl of the inserted row
InsertTTL(ttl) == IF ttl = NoTTL THEN DEFAULT_TTL ELSE ttl[1]

\* set, num_record == 0: DiskCacheInfo.insert(...), by the instance of dir
InsertRowIn(dir, rows, hash, ttl, t) ==
    rows \cup {DiskCacheInfo(hash, fpath(dir, hash), t, t, InsertTTL(ttl))}

InsertRow(rows, hash, ttl, t) == InsertRowIn(CacheDir, rows, hash, ttl, t)

\* a set that rewrites the path of an existing row and forgets updated_at
UpdateRowStale(rows, hash, t) ==
    {IF r.key = hash THEN [r EXCEPT !.path = cache_fpath(hash)] ELSE r : r \in rows}

\* a set that also restarts created_at of an existing row
UpdateRowCreated(rows, hash, t) ==
    {IF r.key = hash
     THEN [r EXCEPT !.path = cache_fpath(hash), !.created_at = t, !.updated_at = t]
     ELSE r : r \in rows}

\* set, num_record # 0: DiskCacheInfo.update(path, updated_at) where key = hash,
\* by the instance of dir
UpdateRowIn(dir, rows, hash, t) ==
    {IF r.key = hash
     THEN [r EXCEPT !.path = fpath(dir, hash), !.updated_at = t]
     ELSE r : r \in rows}

UpdateRow(rows, hash, t) == UpdateRowIn(CacheDir, rows, hash, t)

\* set, from fetch_num_records on: the table after the call
SetRows(rows, hash, ttl, t) ==
    IF fetch_num_records(rows, hash) = 0
    THEN InsertRow(rows, hash, ttl, t)
    ELSE UpdateRow(rows, hash, t)

\* a touch that writes the timestamp into created_at
TouchRowsCreated(rows, key, t) ==
    {IF r.key = key THEN [r EXCEPT !.created_at = t] ELSE r : r \in rows}

\* a touch whose update has no where clause
TouchRowsAll(rows, key, t) == {[r EXCEPT !.updated_at = t] : r \in rows}

\* touch: DiskCacheInfo.update(updated_at) where key = record.key
TouchRows(rows, key, t) ==
    {IF r.key = key THEN [r EXCEPT !.updated_at = t] ELSE r : r \in rows}

\* DiskCacheInfo.delete(where=where)
DeleteRows(rows, gone) == rows \ gone

\* a removal loop that leaves every file in place
RemoveFilesNone(fs, records) == fs

\* "if os.path.isfile(record.path): os.remove(record.path)" for every record
RemoveFiles(fs, records) ==
    [p \in DOMAIN fs |->
        IF \E r \in records : r.path = p /\ isfile(fs, p) THEN NoFile ELSE fs[p]]

(***************************************************************************)
(* Cache engine, one caller: each method is one action.  For each method   *)
(* XxxValue is what the call returns in the current state, XxxTable and    *)
(* XxxFiles are the table and the cache directory it leaves.               *)
(***************************************************************************)
\* get: the selected rows
GetResults(rows, hash, t) == {r \in WhereKey(rows, hash) : IsValid(r, t)}

\* get: what is returned for a selected record
GetRecord(fs, record) ==
    IF ~isfile(fs, record.path)
    THEN RetNone
    ELSE LET res == read_pickle(fs[record.path])
         IN IF res.status = "raise" THEN RetRaise
            ELSE IF res.obj \in DataFrames THEN RetDf(res.obj)
            ELSE RetNone

\* get(key) against table rows and files fs when the clock shows t
GetAt(key, rows, fs, t) ==
    LET results == GetResults(rows, calc_hash(key), t)
    IN IF results = {} THEN RetNone ELSE GetRecord(fs, FirstOf(results))

GetValue(key) == GetAt(key, db, files, now)

\* a get that deletes the selected record when its payload file is missing
GetTableEvict(key) ==
    LET results == GetResults(db, calc_hash(key), now)
    IN IF results # {} /\ ~isfile(files, FirstOf(results).path)
       THEN DeleteRows(db, results) ELSE db

\* get: the table it leaves.  Its only statement on the table is the select;
\* the record of a missing file stays ("TODO: delete the invalid cache info
\* record").
GetTable(key) == db

\* get: the cache directory it leaves; isfile and read_pickle write nothing
GetFiles(key) == files

Get(key) ==
    /\ GetValue(key) \in {RetNone, RetRaise} \cup {RetDf(d) : d \in DataFrames}
    /\ db' = GetTable(key)
    /\ files' = GetFiles(key)
    /\ UNCHANGED <<now, tmp, stored, pc, loc, con, detached, insts>>

\* key in cache
Contains(key) == GetValue(key) # RetNone

\* set: value.to_pickle(tmp_fpath); os.rename(tmp_fpath, cache_fpath), by the
\* instance of dir
PublishFileIn(dir, fs, hash, value) == [fs EXCEPT ![fpath(dir, hash)] = to_pickle(value)]

PublishFile(fs, hash, value) == PublishFileIn(CacheDir, fs, hash, value)

SetFiles(key, value) == PublishFile(files, calc_hash(key), value)

SetTable(key, ttl) == SetRows(db, calc_hash(key), ttl, now)

SetValue(key) == RetPath(cache_fpath(calc_hash(key)))

Set(key, value, ttl) ==
    /\ files' = SetFiles(key, value)
    /\ db' = SetTable(key, ttl)
    /\ stored' = [stored EXCEPT ![calc_hash(key)] = value]
    /\ UNCHANGED <<now, tmp, pc, loc, con, detached, insts>>

\* touch against table rows: records found, row updated, record.path returned
TouchAt(key, rows, t) ==
    LET records == WhereKey(rows, calc_hash(key))
    IN IF records = {}
       THEN [rows |-> rows, val |-> RetNone]
       ELSE [rows |-> TouchRows(rows, FirstOf(records).key, t),
             val |-> RetPath(FirstOf(records).path)]

TouchTable(key) == TouchAt(key, db, now).rows

TouchValue(key) == TouchAt(key, db, now).val

Touch(key) ==
    /\ db' = TouchTable(key)
    /\ UNCHANGED <<now, files, tmp, stored, pc, loc, con, detached, insts>>

\* prune: the selected rows
PruneRecords(rows, t) == {r \in rows : IsExpired(r, t)}

PruneFiles == RemoveFiles(files, PruneRecords(db, now))

PruneTable == DeleteRows(db, PruneRecords(db, now))

\* delete_ct
PruneValue == RetCount(Cardinality(PruneRecords(db, now)))

Prune ==
    /\ files' = PruneFiles
    /\ db' = PruneTable
    /\ stored' = [h \in Hashes |->
                    IF \E r \in PruneRecords(db, now) : r.key = h THEN "" ELSE stored[h]]
    /\ UNCHANGED <<now, tmp, pc, loc, con, detached, insts>>

\* a delete that returns the digest of the record instead of its path
DeletedPathKey(fs, records) ==
    IF \E r \in records : isfile(fs, r.path)
    THEN RetPath((CHOOSE r \in records : isfile(fs, r.path)).key)
    ELSE RetNone

\* delete: deleted_path after the loop over the selected records
DeletedPath(fs, records) ==
    IF \E r \in records : isfile(fs, r.path)
    THEN RetPath((CHOOSE r \in records : isfile(fs, r.path)).path)
    ELSE RetNone

\* a delete that leaves the removal of the file to prune
DeleteAtDeferred(key, rows, fs) ==
    LET records == WhereKey(rows, calc_hash(key))
    IN [rows |-> DeleteRows(rows, records),
        fs |-> fs,
        val |-> DeletedPath(fs, records)]

\* delete against table rows and files fs
DeleteAt(key, rows, fs) ==
    LET records == WhereKey(rows, calc_hash(key))
    IN [rows |-> DeleteRows(rows, records),
        fs |-> RemoveFiles(fs, records),
        val |-> DeletedPath(fs, records)]

DeleteFiles(key) == DeleteAt(key, db, files).fs

DeleteTable(key) == DeleteAt(key, db, files).rows

DeleteValue(key) == DeleteAt(key, db, files).val

Delete(key) ==
    /\ files' = DeleteFiles(key)
    /\ db' = DeleteTable(key)
    /\ stored' = [stored EXCEPT ![calc_hash(key)] = ""]
    /\ UNCHANGED <<now, tmp, pc, loc, con, detached, insts>>

\* __del__, lines 77-79: what can fail while the hook runs.  os.remove can
\* fail in prune when there is a file to remove, the commit at any time.
Faults == {"none", "os.remove", "commit"}

DelFaults(rows, fs, t) ==
    {"none", "commit"} \cup
        (IF \E r \in PruneRecords(rows, t) : isfile(fs, r.path) THEN {"os.remove"} ELSE {})

\* __del__: how the method ends.  It has no exception handler, so an exception
\* of prune() or of DiskCacheInfo.commit() leaves the method.
DelValue(fault) == IF fault = "none" THEN RetNone ELSE RetRaise

\* __del__: whether DiskCacheInfo.commit() is called; not after prune() raised
DelCommits(fault) == fault # "os.remove"

\* __del__: prune(), which removes the files of gone before os.remove fails
\* (all files when it does not fail) and deletes the rows when its loop has
\* ended, then the commit
Del(fault, gone) ==
    /\ fault \in DelFaults(db, files, now)
    /\ gone \subseteq PruneRecords(db, now)
    /\ IF fault = "os.remove"
       THEN /\ gone # PruneRecords(db, now)
            /\ files' = RemoveFiles(files, gone)
            /\ UNCHANGED <<db, stored>>
       ELSE /\ gone = PruneRecords(db, now)
            /\ files' = PruneFiles
            /\ db' = PruneTable
            /\ stored' = [h \in Hashes |->
                            IF \E r \in gone : r.key = h THEN "" ELSE stored[h]]
    /\ UNCHANGED <<now, tmp, pc, loc, con, detached, insts>>

(***************************************************************************)
(* Several instances in one process (IsoSpec).  DiskCacheInfo is one class, *)
(* and every method reaches the table through it: the constructor attaches  *)
(* the class to the database of its own directory, and from then on the     *)
(* methods of every instance work on that database.  The path of a payload  *)
(* file is built from the instance's own cache_dir_path in set and read     *)
(* from the record everywhere else.                                         *)
(***************************************************************************)
\* the keys the instances of IsoSpec use
IsoKeys == {<<"a">>}

\* the table of the database in the cache directory dir
OwnTable(dir) == IF con = dir THEN db ELSE detached[dir]

\* __init__, lines 54-63: DiskCacheInfo.attach(self.__con) moves the class to
\* the database of dir; DiskCacheInfo.create() keeps a table that exists
Open(dir) ==
    /\ insts' = insts \cup {dir}
    /\ con' = dir
    /\ db' = OwnTable(dir)
    /\ detached' = IF con = dir THEN detached
                   ELSE [detached EXCEPT ![con] = db, ![dir] = {}]
    /\ UNCHANGED <<now, files, tmp, stored, pc, loc>>

\* set by the instance of dir: the table DiskCacheInfo is attached to after it
IsoSetTable(dir, key, ttl) ==
    IF fetch_num_records(db, calc_hash(key)) = 0
    THEN InsertRowIn(dir, db, calc_hash(key), ttl, now)
    ELSE UpdateRowIn(dir, db, calc_hash(key), now)

\* set by the instance of dir: the files after it
IsoSetFiles(dir, key, value) == PublishFileIn(dir, files, calc_hash(key), value)

IsoSet(dir, key, value, ttl) ==
    /\ dir \in insts
    /\ files' = IsoSetFiles(dir, key, value)
    /\ db' = IsoSetTable(dir, key, ttl)
    /\ stored' = [stored EXCEPT ![calc_hash(key)] = value]
    /\ UNCHANGED <<now, tmp, pc, loc, con, detached, insts>>

\* get, touch, delete and prune by the instance of dir: they use none of the
\* instance's attributes
IsoGetAt(dir, key, rows, fs, t) == GetAt(key, rows, fs, t)

IsoGet(dir, key) == dir \in insts /\ Get(key)

IsoTouch(dir, key) == dir \in insts /\ Touch(key)

IsoDeleteAt(dir, key, rows, fs) == DeleteAt(key, rows, fs)

IsoDelete(dir, key) == dir \in insts /\ Delete(key)

IsoPrune(dir) == dir \in insts /\ Prune

\* the clock advances by one second
Tick ==
    /\ now < MaxTime
    /\ now' = now + 1
    /\ UNCHANGED <<db, files, tmp, stored, pc, loc, con, detached, insts>>

\* something outside the cache removes a payload file
ExternalRemove(path) ==
    /\ isfile(files, path)
    /\ files' = remove(files, path)
    /\ UNCHANGED <<now, db, tmp, stored, pc, loc, con, detached, insts>>

\* something outside the cache overwrites a payload file: with bytes that do
\* not unpickle, or with a pickled object that is no DataFrame
ExternalWrite(path, content) ==
    /\ isfile(files, path)
    /\ files[path] # content
    /\ files' = [files EXCEPT ![path] = content]
    /\ UNCHANGED <<now, db, tmp, stored, pc, loc, con, detached, insts>>

(***************************************************************************)
(* Cache engine, several callers on one cache directory (ConcSpec).  set   *)
(* and get are split at their file-system and database calls; each such    *)
(* call is atomic.  to_pickle is an open, which creates or truncates the   *)
(* file, and a write of all bytes, which ends with the close.              *)
(***************************************************************************)
Callers == 1..NumCallers

\* the keys and the ttl argument the callers of ConcSpec use
ConcKeys == {<<"a">>, <<"b">>}

ConcTTLArgs == {NoTTL}

\* a caller between calls; calls counts the calls it has started.  A local
\* variable goes back to its value here once the call reads it no more.
NoCall(calls) ==
    [op |-> "idle", key |-> NoKey, value |-> "", ttl |-> NoTTL, tmp_fpath |-> <<>>,
     fd |-> "closed", dirty |-> FALSE, num_record |-> 0, t |-> 0, results |-> {},
     content |-> NoFile, result |-> RetNone, calls |-> calls]

\* caller c has the file at tmp path p open for writing
WritesTmp(c, p) == loc[c].fd = "tmp" /\ loc[c].tmp_fpath = p

\* caller c has the file at cache path p open for writing
WritesCache(c, p) == loc[c].fd = "cache" /\ cache_fpath(calc_hash(loc[c].key)) = p

\* set, lines 152-157: hash, tmp_fpath (named after the clock), cache_fpath
SetCall(c, key, value, ttl) ==
    /\ pc[c] = "idle"
    /\ loc[c].calls < MaxCalls
    /\ loc' = [loc EXCEPT ![c] =
                  [NoCall(loc[c].calls + 1) EXCEPT
                      !.op = "set", !.key = key, !.value = value, !.ttl = ttl,
                      !.tmp_fpath = tmp_fpath(calc_hash(key), now)]]
    /\ pc' = [pc EXCEPT ![c] = "to_pickle"]
    /\ UNCHANGED <<now, db, files, tmp, stored, con, detached, insts>>

\* set, line 159, open(tmp_fpath, "wb"): the file is created, or truncated
\* when it exists; a caller still writing that file now shares it
SetOpen(c) ==
    /\ pc[c] = "to_pickle"
    /\ LET p == loc[c].tmp_fpath
           shared == \E o \in Callers \ {c} : WritesTmp(o, p)
       IN /\ tmp' = [tmp EXCEPT ![p] = Truncated]
          /\ loc' = [o \in Callers |->
                        IF o = c THEN [loc[o] EXCEPT !.fd = "tmp", !.dirty = shared]
                        ELSE IF WritesTmp(o, p) THEN [loc[o] EXCEPT !.dirty = TRUE]
                        ELSE loc[o]]
    /\ pc' = [pc EXCEPT ![c] = "write"]
    /\ UNCHANGED <<now, db, files, stored, con, detached, insts>>

\* the bytes a finished write leaves: the pickled value, or a mix when another
\* writer wrote to the same file in between
Written(c) ==
    IF loc[c].dirty THEN {to_pickle(loc[c].value), Garbage} ELSE {to_pickle(loc[c].value)}

\* set, line 159, pickle.dump and close: the bytes land in the file opened,
\* wherever a rename has moved it since
SetWrite(c) ==
    /\ pc[c] = "write"
    /\ \E bytes \in Written(c) :
          /\ tmp' = IF loc[c].fd = "tmp"
                    THEN [tmp EXCEPT ![loc[c].tmp_fpath] = bytes] ELSE tmp
          /\ files' = IF loc[c].fd = "cache"
                      THEN [files EXCEPT ![cache_fpath(calc_hash(loc[c].key))] = bytes]
                      ELSE files
    /\ loc' = [loc EXCEPT ![c].fd = "closed", ![c].dirty = FALSE]
    /\ pc' = [pc EXCEPT ![c] = "rename"]
    /\ UNCHANGED <<now, db, stored, con, detached, insts>>

\* set, line 160, os.rename(tmp_fpath, cache_fpath): FileNotFoundError when
\* tmp_fpath is gone; else the file takes the cache path, with whoever is
\* still writing it, and the file it replaces is unlinked
SetRename(c) ==
    /\ pc[c] = "rename"
    /\ LET src == loc[c].tmp_fpath
           dst == cache_fpath(calc_hash(loc[c].key))
       IN IF tmp[src] = NoFile
          THEN /\ loc' = [loc EXCEPT ![c].result = RetRaise, ![c].tmp_fpath = <<>>]
               /\ pc' = [pc EXCEPT ![c] = "done"]
               /\ UNCHANGED <<tmp, files>>
          ELSE /\ files' = [files EXCEPT ![dst] = tmp[src]]
               /\ tmp' = [tmp EXCEPT ![src] = NoFile]
               /\ loc' = [o \in Callers |->
                             IF o = c THEN [loc[o] EXCEPT !.tmp_fpath = <<>>]
                             ELSE IF WritesTmp(o, src) THEN [loc[o] EXCEPT !.fd = "cache"]
                             ELSE IF WritesCache(o, dst) THEN [loc[o] EXCEPT !.fd = "unlinked"]
                             ELSE loc[o]]
               /\ pc' = [pc EXCEPT ![c] = "fetch"]
    /\ UNCHANGED <<now, db, stored, con, detached, insts>>

\* set, lines 162-163: utcnow_timestamp and num_record
SetFetch(c) ==
    /\ pc[c] = "fetch"
    /\ loc' = [loc EXCEPT ![c].t = now,
                          ![c].num_record = fetch_num_records(db, calc_hash(loc[c].key))]
    /\ pc' = [pc EXCEPT ![c] = "upsert"]
    /\ UNCHANGED <<now, db, files, tmp, stored, con, detached, insts>>

\* set, lines 165-188: insert when num_record was 0, which the primary key
\* refuses when a row of the key is there by now; else update
SetUpsert(c) ==
    /\ pc[c] = "upsert"
    /\ LET hash == calc_hash(loc[c].key)
       IN IF loc[c].num_record = 0 /\ WhereKey(db, hash) # {}
          THEN /\ loc' = [loc EXCEPT ![c].result = RetRaise, ![c].num_record = 0]
               /\ UNCHANGED db
          ELSE /\ db' = IF loc[c].num_record = 0
                        THEN InsertRow(db, hash, loc[c].ttl, loc[c].t)
                        ELSE UpdateRow(db, hash, loc[c].t)
               /\ loc' = [loc EXCEPT ![c].result = RetPath(cache_fpath(hash)),
                                     ![c].num_record = 0]
    /\ pc' = [pc EXCEPT ![c] = "done"]
    /\ UNCHANGED <<now, files, tmp, stored, con, detached, insts>>

\* get, lines 108-117 and 132-134: the select, and None when it finds no row
GetCall(c, key) ==
    /\ pc[c] = "idle"
    /\ loc[c].calls < MaxCalls
    /\ LET results == GetResults(db, calc_hash(key), now)
       IN /\ loc' = [loc EXCEPT ![c] =
                        [NoCall(loc[c].calls + 1) EXCEPT
                            !.op = "get", !.key = key, !.results = results]]
          /\ pc' = [pc EXCEPT ![c] = IF results = {} THEN "done" ELSE "isfile"]
    /\ UNCHANGED <<now, db, files, tmp, stored, con, detached, insts>>

\* get, lines 119-121: os.path.isfile(record.path)
GetIsFile(c) ==
    /\ pc[c] = "isfile"
    /\ IF isfile(files, FirstOf(loc[c].results).path)
       THEN /\ pc' = [pc EXCEPT ![c] = "read_pickle"]
            /\ UNCHANGED loc
       ELSE /\ pc' = [pc EXCEPT ![c] = "done"]
            /\ loc' = [loc EXCEPT ![c].results = {}]
    /\ UNCHANGED <<now, db, files, tmp, stored, con, detached, insts>>

\* get, lines 125-130: pd.read_pickle(record.path) and the isinstance test
GetRead(c) ==
    /\ pc[c] = "read_pickle"
    /\ LET record == FirstOf(loc[c].results)
       IN loc' = [loc EXCEPT ![c].content = files[record.path],
                             ![c].results = {},
                             ![c].result = IF isfile(files, record.path)
                                           THEN GetRecord(files, record) ELSE RetRaise]
    /\ pc' = [pc EXCEPT ![c] = "done"]
    /\ UNCHANGED <<now, db, files, tmp, stored, con, detached, insts>>

\* the key and the ttl argument the callers of RaceSpec use
RaceKeys == {<<"a">>}

RaceTTLArgs == {<<0>>}

\* delete, lines 231-235: hash, where, deleted_path = None, and the select
DeleteCall(c, key) ==
    /\ pc[c] = "idle"
    /\ loc[c].calls < MaxCalls
    /\ LET records == WhereKey(db, calc_hash(key))
       IN /\ loc' = [loc EXCEPT ![c] =
                        [NoCall(loc[c].calls + 1) EXCEPT
                            !.op = "delete", !.key = key, !.results = records]]
          /\ pc' = [pc EXCEPT ![c] = IF records = {} THEN "delete_rows" ELSE "remove"]
    /\ UNCHANGED <<now, db, files, tmp, stored, con, detached, insts>>

\* prune, lines 213-218: where (with the clock value of now in it),
\* delete_ct = 0, and the select
PruneCall(c) ==
    /\ pc[c] = "idle"
    /\ loc[c].calls < MaxCalls
    /\ LET records == PruneRecords(db, now)
       IN /\ loc' = [loc EXCEPT ![c] =
                        [NoCall(loc[c].calls + 1) EXCEPT
                            !.op = "prune", !.t = now, !.results = records,
                            !.result = RetCount(0)]]
          /\ pc' = [pc EXCEPT ![c] = IF records = {} THEN "delete_rows" ELSE "remove"]
    /\ UNCHANGED <<now, db, files, tmp, stored, con, detached, insts>>

\* delete, lines 236-242, and prune, lines 219-223: the loop body for one
\* selected record: the file at record.path is removed when it is there,
\* whoever put it there; delete notes the path, prune counts the record
LoopRemove(c) ==
    /\ pc[c] = "remove"
    /\ LET record == FirstOf(loc[c].results)
           there == isfile(files, record.path)
           left == loc[c].results \ {record}
       IN /\ files' = IF there THEN remove(files, record.path) ELSE files
          /\ loc' = [o \in Callers |->
                        IF o = c
                        THEN [loc[o] EXCEPT
                                 !.results = left,
                                 !.result =
                                     IF loc[o].op = "prune" THEN RetCount(loc[o].result.n + 1)
                                     ELSE IF there THEN RetPath(record.path)
                                     ELSE loc[o].result]
                        ELSE IF there /\ WritesCache(o, record.path)
                        THEN [loc[o] EXCEPT !.fd = "unlinked"]
                        ELSE loc[o]]
          /\ pc' = [pc EXCEPT ![c] = IF left = {} THEN "delete_rows" ELSE "remove"]
    /\ UNCHANGED <<now, db, tmp, stored, con, detached, insts>>

\* delete, line 244, and prune, line 225: DiskCacheInfo.delete(where=where),
\* the where clause evaluated on the table as it is now
LoopDelete(c) ==
    /\ pc[c] = "delete_rows"
    /\ db' = IF loc[c].op = "prune"
             THEN DeleteRows(db, PruneRecords(db, loc[c].t))
             ELSE DeleteRows(db, WhereKey(db, calc_hash(loc[c].key)))
    /\ loc' = [loc EXCEPT ![c].t = 0]
    /\ pc' = [pc EXCEPT ![c] = "done"]
    /\ UNCHANGED <<now, files, tmp, stored, con, detached, insts>>

\* the call returns (or its exception reaches the caller)
Return(c) ==
    /\ pc[c] = "done"
    /\ loc[c].calls < MaxCalls
    /\ loc' = [loc EXCEPT ![c] = NoCall(loc[c].calls)]
    /\ pc' = [pc EXCEPT ![c] = "idle"]
    /\ UNCHANGED <<now, db, files, tmp, stored, con, detached, insts>>

\* the clock, as the callers of ConcSpec see it
ConcTick ==
    /\ now < MaxTime
    /\ now' = now + 1
    /\ UNCHANGED <<db, files, tmp, stored, pc, loc, con, detached, insts>>

Init ==
    /\ now = 0
    /\ db = {}
    /\ files = [p \in AllPaths |-> NoFile]
    /\ tmp = [p \in TmpPaths |-> NoFile]
    /\ stored = [h \in Hashes |-> ""]
    /\ pc = [c \in Callers |-> "idle"]
    /\ loc = [c \in Callers |-> NoCall(0)]
    /\ con = CacheDir
    /\ detached = [d \in Dirs |-> {}]
    /\ insts = {CacheDir}

Next ==
    \/ \E key \in Keys : Get(key)
    \/ \E key \in Keys, value \in DataFrames, ttl \in TTLArgs : Set(key, value, ttl)
    \/ \E key \in Keys : Touch(key)
    \/ Prune
    \/ \E key \in Keys : Delete(key)
    \/ Tick
    \/ \E fault \in Faults, gone \in SUBSET db : Del(fault, gone)
    \/ \E path \in Paths : ExternalRemove(path)
    \/ \E path \in Paths, content \in {Garbage, to_pickle(NotDataFrame)} :
          ExternalWrite(path, content)

Spec == Init /\ [][Next]_vars

\* one caller, and nothing but the cache touches the cache directory
EngineNext ==
    \/ \E key \in Keys : Get(key)
    \/ \E key \in Keys, value \in DataFrames, ttl \in TTLArgs : Set(key, value, ttl)
    \/ \E key \in Keys : Touch(key)
    \/ Prune
    \/ \E key \in Keys : Delete(key)
    \/ Tick

EngineSpec == Init /\ [][EngineNext]_vars

ConcNext ==
    \/ \E c \in Callers, key \in ConcKeys, value \in DataFrames, ttl \in ConcTTLArgs :
          SetCall(c, key, value, ttl)
    \/ \E c \in Callers : SetOpen(c)
    \/ \E c \in Callers : SetWrite(c)
    \/ \E c \in Callers : SetRename(c)
    \/ \E c \in Callers : SetFetch(c)
    \/ \E c \in Callers : SetUpsert(c)
    \/ \E c \in Callers, key \in ConcKeys : GetCall(c, key)
    \/ \E c \in Callers : GetIsFile(c)
    \/ \E c \in Callers : GetRead(c)
    \/ \E c \in Callers : Return(c)
    \/ ConcTick

ConcSpec == Init /\ [][ConcNext]_vars

\* one caller using the instances of several cache directories
IsoNext ==
    \/ \E dir \in Dirs : Open(dir)
    \/ \E dir \in Dirs, key \in IsoKeys, value \in DataFrames, ttl \in TTLArgs :
          IsoSet(dir, key, value, ttl)
    \/ \E dir \in Dirs, key \in IsoKeys : IsoGet(dir, key)
    \/ \E dir \in Dirs, key \in IsoKeys : IsoTouch(dir, key)
    \/ \E dir \in Dirs, key \in IsoKeys : IsoDelete(dir, key)
    \/ \E dir \in Dirs : IsoPrune(dir)
    \/ Tick

IsoSpec == Init /\ [][IsoNext]_vars

\* callers that set, delete and prune on one cache directory
RaceNext ==
    \/ \E c \in Callers, key \in RaceKeys, value \in DataFrames, ttl \in RaceTTLArgs :
          SetCall(c, key, value, ttl)
    \/ \E c \in Callers : SetOpen(c)
    \/ \E c \in Callers : SetWrite(c)
    \/ \E c \in Callers : SetRename(c)
    \/ \E c \in Callers : SetFetch(c)
    \/ \E c \in Callers : SetUpsert(c)
    \/ \E c \in Callers, key \in RaceKeys : DeleteCall(c, key)
    \/ \E c \in Callers : PruneCall(c)
    \/ \E c \in Callers : LoopRemove(c)
    \/ \E c \in Callers : LoopDelete(c)
    \/ \E c \in Callers : Return(c)
    \/ ConcTick

RaceSpec == Init /\ [][RaceNext]_vars

(***************************************************************************)
(* Claims about one caller (Spec).  A claim about what a call does is      *)
(* stated of every reachable state and every argument: the table, files    *)
(* and return value the call produces from that state.                     *)
(***************************************************************************)
\* the clock values a later get is evaluated at
LaterTimes == 0..(MaxTime + MaxTTL + 1)

\* the rows of digest h
RowsOf(rows, h) == {r \in rows : r.key = h}

\* C1 (round trip): for every key, DataFrame and ttl argument and every
\* reachable prior state (no row, a valid row or an expired row for the key),
\* get(key) in the clock second of set(key, value, ttl) returns value.
C1_RoundTrip ==
    \A key \in Keys, value \in DataFrames, ttl \in TTLArgs :
        GetAt(key, SetTable(key, ttl), SetFiles(key, value), now) = RetDf(value)

\* C1 witness: the table holds an expired row for the key, its file holds
\* another DataFrame, and get after set returns the DataFrame just stored.
C1_Witness ==
    \E key \in Keys, value \in DataFrames :
        /\ \E r \in RowsOf(db, calc_hash(key)) : r.updated_at + r.ttl < now
        /\ files[cache_fpath(calc_hash(key))] \notin {NoFile, to_pickle(value)}
        /\ GetValue(key) = RetNone
        /\ GetAt(key, SetTable(key, NoTTL), SetFiles(key, value), now) = RetDf(value)

\* C2 (expiration), as claimed: after set(key, value, ttl=t) at time T, in any
\* prior state, with no later set or touch, every get(key) at a time later
\* than T + t returns None.
C2_Expiration ==
    \A key \in Keys, value \in DataFrames, t \in 0..MaxTTL, t2 \in LaterTimes :
        t2 > now + t =>
            GetAt(key, SetTable(key, <<t>>), SetFiles(key, value), t2) = RetNone

\* C4 (touch resurrection): when the row of the key is expired and still in
\* the table, touch(key) at time T returns its path, and while the payload
\* file is the one the latest set published every get(key) at a time from T
\* to T + ttl, ttl being the row's stored ttl, returns the DataFrame last
\* stored for the key.
C4_TouchResurrection ==
    \A key \in Keys :
        \A r \in RowsOf(db, calc_hash(key)) :
            r.updated_at + r.ttl < now =>
                /\ TouchValue(key) = RetPath(cache_fpath(r.key))
                /\ files[cache_fpath(r.key)] = to_pickle(stored[r.key]) =>
                       \A t2 \in LaterTimes :
                           (now <= t2 /\ t2 <= now + r.ttl) =>
                               GetAt(key, TouchTable(key), files, t2) = RetDf(stored[r.key])

\* C4 witness: get misses on an expired row whose file is in place, and
\* after touch it returns the stored DataFrame.
C4_Witness ==
    \E key \in Keys :
        /\ \E r \in RowsOf(db, calc_hash(key)) : r.updated_at + r.ttl < now
        /\ GetValue(key) = RetNone
        /\ TouchValue(key) # RetNone
        /\ stored[calc_hash(key)] \in DataFrames
        /\ GetAt(key, TouchTable(key), files, now) = RetDf(stored[calc_hash(key)])

\* C5 (prune count): with M the rows with updated_at + ttl < now, prune
\* returns the number of rows of M, removes exactly the rows of M and the
\* payload files of their digests, and leaves every other row and file as it
\* was; with M empty it returns 0 and changes nothing.
C5_PruneCount ==
    LET M == {r \in db : r.updated_at + r.ttl < now}
    IN /\ PruneValue = RetCount(Cardinality(M))
       /\ PruneTable = db \ M
       /\ \A h \in Hashes :
              PruneFiles[cache_fpath(h)] =
                  IF \E r \in M : r.key = h THEN NoFile ELSE files[cache_fpath(h)]
       /\ M = {} => PruneValue = RetCount(0) /\ PruneTable = db /\ PruneFiles = files

\* C5 witness: prune removes an expired row and its file and keeps a valid
\* row and its file.
C5_Witness ==
    /\ PruneValue = RetCount(1)
    /\ Cardinality(db) = 2
    /\ \A r \in db : isfile(files, r.path)
    /\ Cardinality(PruneTable) = 1
    /\ \E r \in db : ~isfile(PruneFiles, r.path)
    /\ \E r \in db : isfile(PruneFiles, r.path)

\* C6 (delete result), as claimed: delete(key) returns the entry's path if
\* and only if a row for the key existed before the call, whether or not its
\* payload file is still there, and None otherwise; a second delete in a row
\* returns None.
C6_DeleteResult ==
    \A key \in Keys :
        /\ RowsOf(db, calc_hash(key)) # {} =>
               DeleteValue(key) = RetPath(cache_fpath(calc_hash(key)))
        /\ RowsOf(db, calc_hash(key)) = {} => DeleteValue(key) = RetNone
        /\ DeleteAt(key, DeleteTable(key), DeleteFiles(key)).val = RetNone

\* no row and no payload file for digest h
NoEntry(rows, fs, h) == RowsOf(rows, h) = {} /\ fs[cache_fpath(h)] = NoFile

\* C7 (delete post-state): delete(key) leaves no row and no payload file for
\* the key's digest, so get(key) at any time and touch(key) return None; the
\* rows and files of the other digests are as before; and get, touch, prune
\* and delete never bring an entry back (only a set does).
C7_DeletePostState ==
    /\ \A key \in Keys :
           LET h == calc_hash(key)
               rows == DeleteTable(key)
               fs == DeleteFiles(key)
           IN /\ NoEntry(rows, fs, h)
              /\ \A t2 \in LaterTimes : GetAt(key, rows, fs, t2) = RetNone
              /\ TouchAt(key, rows, now).val = RetNone
              /\ TouchAt(key, rows, now).rows = rows
              /\ {r \in rows : r.key # h} = {r \in db : r.key # h}
              /\ \A h2 \in Hashes \ {h} : fs[cache_fpath(h2)] = files[cache_fpath(h2)]
    /\ \A h \in Hashes :
           NoEntry(db, files, h) =>
               /\ NoEntry(PruneTable, PruneFiles, h)
               /\ \A k2 \in Keys :
                      /\ NoEntry(TouchTable(k2), files, h)
                      /\ NoEntry(DeleteTable(k2), DeleteFiles(k2), h)

\* C7 witness: delete removes the row and the file of one key while another
\* key has an entry.
C7_Witness ==
    \E key \in Keys :
        /\ RowsOf(db, calc_hash(key)) # {}
        /\ isfile(files, cache_fpath(calc_hash(key)))
        /\ NoEntry(DeleteTable(key), DeleteFiles(key), calc_hash(key))
        /\ DeleteTable(key) # {}
        /\ \E r \in DeleteTable(key) : isfile(DeleteFiles(key), r.path)

\* C8 (default ttl), as claimed: after a set without ttl, in any prior state,
\* the row of the key has ttl DEFAULT_TTL, and get(key) returns the DataFrame
\* at every time up to set time + DEFAULT_TTL.
C8_DefaultTTL ==
    \A key \in Keys, value \in DataFrames :
        /\ \A r \in RowsOf(SetTable(key, NoTTL), calc_hash(key)) : r.ttl = DEFAULT_TTL
        /\ \A t2 \in LaterTimes \cup {now + DEFAULT_TTL} :
               (now <= t2 /\ t2 <= now + DEFAULT_TTL) =>
                   GetAt(key, SetTable(key, NoTTL), SetFiles(key, value), t2) = RetDf(value)

\* C9 (get is soft on every miss), as claimed: get(key) never raises, and
\* returns None when there is no row, when the row is expired, when the
\* payload file is missing, and when the file does not hold a pickled
\* DataFrame.
C9_GetSoft ==
    \A key \in Keys :
        LET h == calc_hash(key)
            content == files[cache_fpath(h)]
        IN /\ GetValue(key) # RetRaise
           /\ (\/ RowsOf(db, h) = {}
               \/ \A r \in RowsOf(db, h) : r.updated_at + r.ttl < now
               \/ content = NoFile
               \/ content \notin {to_pickle(d) : d \in DataFrames})
                  => GetValue(key) = RetNone

\* C11 (stable identifier): set(key, value) returns the cache path of the
\* key's digest, whatever the state and for every key of that digest; touch(key)
\* and delete(key) right after the set, and in every later state in which the
\* entry (its row and its payload file) still exists, return that same path.
C11_StableIdentifier ==
    \A key \in Keys :
        LET h == calc_hash(key)
        IN /\ \A k2 \in Keys : calc_hash(k2) = h => SetValue(k2) = SetValue(key)
           /\ \A value \in DataFrames, ttl \in TTLArgs :
                  LET rows == SetTable(key, ttl)
                      fs == SetFiles(key, value)
                  IN /\ TouchAt(key, rows, now).val = SetValue(key)
                     /\ DeleteAt(key, rows, fs).val = SetValue(key)
                     /\ DeleteAt(key, TouchAt(key, rows, now).rows, fs).val = SetValue(key)
           /\ (RowsOf(db, h) # {} /\ isfile(files, cache_fpath(h))) =>
                  /\ TouchValue(key) = SetValue(key)
                  /\ DeleteValue(key) = SetValue(key)

\* C11 witness: an entry stored earlier, touched since and expired by now is
\* still there, and touch and delete return the path set returned.
C11_Witness ==
    \E key \in Keys :
        /\ \E r \in RowsOf(db, calc_hash(key)) :
               r.created_at < r.updated_at /\ r.updated_at + r.ttl < now
        /\ isfile(files, cache_fpath(calc_hash(key)))
        /\ TouchValue(key) = SetValue(key)
        /\ DeleteValue(key) = SetValue(key)

\* C12 (touch changes only updated_at): in every state, touch(key) on a key
\* with a row, valid or expired, leaves the table as it was except that the
\* row's updated_at is now (path, created_at and ttl of the row and all other
\* rows are kept); on a key without a row it returns None and leaves the
\* table as it was, creating no row.  No step that is a touch changes a
\* payload file.
C12_TouchFrame ==
    /\ [](\A key \in Keys :
             LET h == calc_hash(key)
             IN /\ RowsOf(db, h) = {} => (TouchValue(key) = RetNone /\ TouchTable(key) = db)
                /\ RowsOf(db, h) # {} =>
                       /\ TouchValue(key) # RetNone
                       /\ TouchTable(key) =
                              (db \ RowsOf(db, h)) \cup
                                  {[key |-> r.key, path |-> r.path, created_at |-> r.created_at,
                                    updated_at |-> now, ttl |-> r.ttl] : r \in RowsOf(db, h)})
    /\ [][\A key \in Keys : Touch(key) => files' = files]_vars

\* C12 witness: touch acts on an expired row last updated before now while
\* another key has a row and both payload files exist.
C12_Witness ==
    \E key \in Keys :
        /\ \E r \in RowsOf(db, calc_hash(key)) : r.updated_at + r.ttl < now
        /\ \E r \in db : r.key # calc_hash(key) /\ r.updated_at < now
        /\ \A r \in db : isfile(files, r.path)
        /\ TouchTable(key) # db

\* the key without its leading and trailing whitespace: the characters from
\* the first to the last one that is no whitespace
Trimmed(s) ==
    LET idx == {i \in 1..Len(s) : ~IsSpace(s[i])}
    IN IF idx = {} THEN <<>>
       ELSE SubSeq(s, CHOOSE i \in idx : \A j \in idx : i <= j,
                      CHOOSE i \in idx : \A j \in idx : j <= i)

\* C13 (whitespace-insensitive keys): for keys k1 and k2 that are equal after
\* stripping leading and trailing whitespace, in every state get(k2) after
\* set(k1, value) returns value and delete(k2) after set(k1, value) leaves no
\* row and no file of the entry; for keys that differ after stripping the
\* digests differ, and set(k1) and delete(k1) leave what get(k2) returns, the
\* rows and the file of k2 as they were.
C13_StrippedKeys ==
    \A k1 \in Keys, k2 \in Keys, value \in DataFrames, ttl \in TTLArgs :
        LET rows == SetTable(k1, ttl)
            fs == SetFiles(k1, value)
            h2 == calc_hash(k2)
        IN /\ Trimmed(k1) = Trimmed(k2) =>
                  /\ calc_hash(k1) = h2
                  /\ GetAt(k2, rows, fs, now) = RetDf(value)
                  /\ NoEntry(DeleteAt(k2, rows, fs).rows, DeleteAt(k2, rows, fs).fs,
                             calc_hash(k1))
           /\ Trimmed(k1) # Trimmed(k2) =>
                  /\ calc_hash(k1) # h2
                  /\ GetAt(k2, rows, fs, now) = GetValue(k2)
                  /\ RowsOf(rows, h2) = RowsOf(db, h2)
                  /\ fs[cache_fpath(h2)] = files[cache_fpath(h2)]
                  /\ RowsOf(DeleteTable(k1), h2) = RowsOf(db, h2)
                  /\ DeleteFiles(k1)[cache_fpath(h2)] = files[cache_fpath(h2)]

\* C13 witness: an entry stored under a key with surrounding whitespace is
\* returned by get and removed by delete under the bare key, while the entry
\* of a different key stays.
C13_Witness ==
    \E k1 \in Keys, k2 \in Keys, k3 \in Keys :
        /\ k1 # k2 /\ Trimmed(k1) = k2 /\ Trimmed(k3) # k2
        /\ GetValue(k2) = RetNone
        /\ GetValue(k3) \in {RetDf(d) : d \in DataFrames}
        /\ GetAt(k2, SetTable(k1, NoTTL), SetFiles(k1, "df1"), now) = RetDf("df1")
        /\ GetAt(k3, DeleteAt(k2, SetTable(k1, NoTTL), SetFiles(k1, "df1")).rows,
                 DeleteAt(k2, SetTable(k1, NoTTL), SetFiles(k1, "df1")).fs, now) = GetValue(k3)

C15_ValidXorExpired ==
    /\ \A t \in LaterTimes :
           LET valid == UNION {GetResults(db, h, t) : h \in Hashes}
               expired == PruneRecords(db, t)
           IN /\ valid \cup expired = db
              /\ valid \cap expired = {}
              /\ \A r \in db :
                     /\ r \in valid <=> r.updated_at + r.ttl >= t
                     /\ r \in expired <=> r.updated_at + r.ttl < t
    /\ \A key \in Keys :
           GetValue(key) \in {RetDf(d) : d \in DataFrames} =>
               /\ RowsOf(PruneTable, calc_hash(key)) = RowsOf(db, calc_hash(key))
               /\ GetAt(key, PruneTable, PruneFiles, now) = GetValue(key)

\* C15 witness: at the current second one row is on the boundary
\* updated_at + ttl = now, get returns its DataFrame and prune keeps it, while
\* prune removes another row that is expired.
C15_Witness ==
    \E key \in Keys :
        /\ \E r \in RowsOf(db, calc_hash(key)) : r.updated_at + r.ttl = now /\ r.ttl > 0
        /\ GetValue(key) \in {RetDf(d) : d \in DataFrames}
        /\ GetAt(key, PruneTable, PruneFiles, now) = GetValue(key)
        /\ PruneValue = RetCount(1)

\* C16 (record/file correspondence, EngineSpec): after any sequence of set,
\* get, touch, delete and prune calls made one at a time, with no file removed
\* or written from outside, the digests with a row are the digests with a
\* payload file in the cache directory, every row's path is the cache path of
\* its digest, and no digest has two rows.
C16_RecordFileCorrespondence ==
    /\ {r.key : r \in db} = {h \in Hashes : isfile(files, cache_fpath(h))}
    /\ \A r \in db : r.path = cache_fpath(r.key)
    /\ \A h \in Hashes : Cardinality(RowsOf(db, h)) <= 1

\* C16 witness: two digests have a row and a file, one of them expired;
\* prune removes the row and the file of the expired one and delete those of
\* the other.
C16_Witness ==
    \E key \in Keys, h2 \in Hashes :
        /\ calc_hash(key) # h2
        /\ \E r \in RowsOf(db, h2) : r.updated_at + r.ttl < now
        /\ \E r \in RowsOf(db, calc_hash(key)) : r.updated_at + r.ttl >= now
        /\ isfile(files, cache_fpath(h2)) /\ isfile(files, cache_fpath(calc_hash(key)))
        /\ NoEntry(PruneTable, PruneFiles, h2)
        /\ NoEntry(DeleteTable(key), DeleteFiles(key), calc_hash(key))

\* C17 (the shutdown hook does not propagate failures), as claimed: in every
\* state, whatever fails while the hook runs (os.remove inside prune, or the
\* commit), the hook ends without an exception, and it calls the commit.
C17_HookSwallowsFailures ==
    \A fault \in DelFaults(db, files, now) :
        DelValue(fault) = RetNone /\ DelCommits(fault)

\* C18 (get is read-only): every step that is a get(key), whether it returns
\* a DataFrame or None, a miss on a missing payload file included, leaves
\* every row (updated_at too, and the row of a missing file) and every
\* payload file as it was.
C18_GetReadOnly ==
    /\ [](\A key \in Keys : GetTable(key) = db /\ GetFiles(key) = files)
    /\ [][\A key \in Keys : Get(key) => (db' = db /\ files' = files)]_vars

\* C18 witness: get misses on a valid row whose payload file is missing, and
\* hits on another key whose row was last updated before now.
C18_Witness ==
    \E key \in Keys, k2 \in Keys :
        /\ GetResults(db, calc_hash(key), now) # {}
        /\ ~isfile(files, cache_fpath(calc_hash(key)))
        /\ GetValue(key) = RetNone
        /\ GetTable(key) = db
        /\ GetValue(k2) \in {RetDf(d) : d \in DataFrames}
        /\ \E r \in RowsOf(db, calc_hash(k2)) : r.updated_at < now

(***************************************************************************)
(* Claims about several callers (ConcSpec)                                 *)
(***************************************************************************)
\* C3 (atomic visibility), as claimed: whatever set calls are in progress,
\* including two set calls on one key that began in the same clock second,
\* the payload file a get reads at the cache path is a complete pickled
\* DataFrame, the old one or a new one, never a partly written file.
C3_AtomicVisibility ==
    \A c \in Callers :
        (loc[c].op = "get" /\ pc[c] = "done" /\ loc[c].content # NoFile) =>
            loc[c].content \in {to_pickle(d) : d \in DataFrames}

\* C10 (concurrent writers, last write wins), as claimed: when two set calls
\* on one key have both completed, however they interleaved, neither raised,
\* and the table holds exactly one row for the digest, whose path is the
\* cache path and whose updated_at is the timestamp of one of the two calls.
C10_LastWriteWins ==
    \A c1 \in Callers, c2 \in Callers :
        LET h == calc_hash(loc[c1].key)
        IN (/\ c1 # c2
            /\ pc[c1] = "done" /\ loc[c1].op = "set"
            /\ pc[c2] = "done" /\ loc[c2].op = "set"
            /\ calc_hash(loc[c2].key) = h) =>
               /\ loc[c1].result = RetPath(cache_fpath(h))
               /\ loc[c2].result = RetPath(cache_fpath(h))
               /\ Cardinality(RowsOf(db, h)) = 1
               /\ \A r \in RowsOf(db, h) :
                      r.path = cache_fpath(h) /\ r.updated_at \in {loc[c1].t, loc[c2].t}

\* C19 (set is not undone by a concurrent prune or delete), as claimed (RaceSpec):
\* once a set(k, p) of one caller and a prune() or delete(k) of another
\* caller have both completed, however their steps interleaved, either there
\* is no row for k and no payload file for k, or there is a row for k and its
\* payload file exists and holds p.
C19_SetNotUndone ==
    \A c1 \in Callers, c2 \in Callers :
        LET h == calc_hash(loc[c1].key)
        IN (/\ pc[c1] = "done" /\ loc[c1].op = "set" /\ loc[c1].result # RetRaise
            /\ pc[c2] = "done" /\ loc[c2].op \in {"delete", "prune"}
            /\ loc[c2].op = "delete" => calc_hash(loc[c2].key) = h) =>
               \/ NoEntry(db, files, h)
               \/ /\ RowsOf(db, h) # {}
                  /\ files[cache_fpath(h)] = to_pickle(loc[c1].value)

(***************************************************************************)
(* Claims about several instances (IsoSpec)                                *)
(***************************************************************************)
\* the files of the cache directory dir are the same in fs and fs2
SameFiles(dir, fs, fs2) == \A h \in Hashes : fs[fpath(dir, h)] = fs2[fpath(dir, h)]

\* C20 (instance isolation), as claimed: with instances A and B of different
\* cache directories, set(k, p) on A leaves the table and the files of B's
\* directory as they were and changes nothing of what get(k) on B returns;
\* get on B returns what the table of B's own directory says; and delete(k)
\* and prune() on B leave the table and the files of A's directory as they
\* were.
C20_InstanceIsolation ==
    \A A \in insts, B \in insts :
        A # B =>
            \A k \in IsoKeys :
                /\ \A p \in DataFrames, ttl \in TTLArgs :
                       LET rows == IsoSetTable(A, k, ttl)
                           fs == IsoSetFiles(A, k, p)
                       IN /\ con = B => rows = db
                          /\ SameFiles(B, fs, files)
                          /\ IsoGetAt(B, k, rows, fs, now) = IsoGetAt(B, k, db, files, now)
                /\ IsoGetAt(B, k, db, files, now) = GetAt(k, OwnTable(B), files, now)
                /\ con = A => IsoDeleteAt(B, k, db, files).rows = db
                /\ SameFiles(A, IsoDeleteAt(B, k, db, files).fs, files)
                /\ con = A => PruneTable = db
                /\ SameFiles(A, PruneFiles, files)

====
